---- MODULE Spec2Model ----
(***************************************************************************)
(* The persistent job queue of the repository: the jobs table and its      *)
(* operations (seedJobs, sweepStaleJobs, claimNextJob, updateJob), the      *)
(* process runner (spawnJob), the worker loop (createWorkerLoop), and the   *)
(* orchestrator (main and the body handed to it).                           *)
(*                                                                          *)
(* JavaScript runs every callback to completion.  The model splits the      *)
(* synchronous code into steps, and lets an external event (a child         *)
(* closing, a signal, the clock advancing) happen only when no step of      *)
(* synchronous code is pending (Idle).  The one event admitted elsewhere    *)
(* is a signal between the settling of run() and process.exit (LateSignal). *)
(*                                                                          *)
(* Structured concurrency of effection, as main and the body rely on it:    *)
(* resolving the action of main halts the body; a halted task takes no      *)
(* further step; the worker tasks are halted (the teardown of spawnJob      *)
(* kills the child) before the database resource, created first, runs its   *)
(* finally.  An error thrown by a worker halts its siblings the same way    *)
(* before it reaches the catch of main.                                     *)
(***************************************************************************)
EXTENDS Integers, Sequences, FiniteSets, TLC

VARIABLES
    jobs,        \* the rows of table jobs, ordered by id
    db,          \* the connection: "none", "created", "provided", "closed"
    closes,      \* number of calls of db.close()
    now,         \* the clock, in seconds
    mainPc,      \* position of main and of the body it runs
    wpc,         \* position of each worker
    held,        \* the Job value each worker holds
    child,       \* the child process of each worker
    handlers,    \* signals that have a listener registered by main
    result,      \* status of the Exit the action was resolved with
    exitStatus,  \* status handed to process.exit
    thrown,      \* an error was thrown by the body or a worker, or left uncaught
    claimed,     \* ids returned by claimNextJob, in order of the calls
    signals,     \* signals delivered to a listener while the body ran, in order
    code,        \* the exit code each worker's child closed with
    lateSignals, \* signals delivered to a listener after the action was resolved
    lastOp       \* the store operation last applied to a table on its own

vars == <<jobs, db, closes, now, mainPc, wpc, held, child, handlers, result,
          exitStatus, thrown, claimed, signals, code, lateSignals, lastOp>>

--------------------------------------------------------------------------
(* Constants of the program *)

NULL == -1                 \* null of a timestamp, an exit code or a status
NoText == "<null>"         \* null of a TEXT column

NWorkers == 3
StaleSeconds == 10
SeedCommands == <<"echo", "ls", "sleep", "date", "uptime">>
TimeoutMarker == "Job timed out"

NotClosed == -2            \* the child has not reported a close

NoOp == [name |-> "none", id |-> 0, threw |-> FALSE, again |-> FALSE]

Workers == 1..NWorkers
Signals == {"SIGINT", "SIGTERM"}

(* Bounds of the model *)
MaxTicks == 1
MaxLateSignals == 1
\* one tick is long enough to make a running job stale
TickSeconds == StaleSeconds + 1

(* What a child can report when it closes: exit code 0, a non-zero code,   *)
(* or no code (the child was killed by a signal), with the text it wrote.  *)
ChildOutcomes ==
    { [code |-> 0,    stdout |-> "out", stderr |-> ""],
      [code |-> 1,    stdout |-> "",    stderr |-> "err"],
      [code |-> NULL, stdout |-> "",    stderr |-> "err"] }

--------------------------------------------------------------------------
(* The Job Store *)

NoJob == [id |-> 0, command |-> "", status |-> "none", started_at |-> NULL,
          finished_at |-> NULL, stdout |-> NoText, stderr |-> NoText]

Terminal == {"done", "failed"}

Min(S) == CHOOSE x \in S : \A y \in S : x <= y

\* INSERT INTO jobs (command, args, status) VALUES (?, json(?), 'pending')
insert(t, command) ==
    Append(t, [id |-> Len(t) + 1, command |-> command, status |-> "pending",
               started_at |-> NULL, finished_at |-> NULL,
               stdout |-> NoText, stderr |-> NoText])

RECURSIVE insertAll(_, _)
insertAll(t, cmds) ==
    IF cmds = <<>> THEN t
    ELSE insertAll(insert(t, Head(cmds)), Tail(cmds))

\* seeding without the check of the row count
seedJobs_Always(t) == insertAll(t, SeedCommands)

seedJobs(t) ==
    IF Len(t) > 0 THEN t ELSE insertAll(t, SeedCommands)

\* the comparison of the sweep written with <=
sweepStaleJobs_AtThreshold(t, time) ==
    [i \in 1..Len(t) |->
        IF t[i].status = "running" /\ t[i].started_at <= time - StaleSeconds
        THEN [t[i] EXCEPT !.status = "failed", !.stderr = TimeoutMarker]
        ELSE t[i]]

\* the sweep limited to the oldest stale job, as the claim is to the oldest pending one
sweepStaleJobs_OnlyOldest(t, time) ==
    LET stale == {t[i].id : i \in {k \in 1..Len(t) :
                     t[k].status = "running" /\ t[k].started_at < time - StaleSeconds}}
    IN  [i \in 1..Len(t) |->
            IF stale # {} /\ t[i].id = Min(stale)
            THEN [t[i] EXCEPT !.status = "failed", !.stderr = TimeoutMarker]
            ELSE t[i]]

sweepStaleJobs(t, time) ==
    [i \in 1..Len(t) |->
        IF t[i].status = "running" /\ t[i].started_at < time - StaleSeconds
        THEN [t[i] EXCEPT !.status = "failed", !.stderr = TimeoutMarker]
        ELSE t[i]]

\* the subselect without its WHERE clause on the status
claimNextId_AnyStatus(t) ==
    LET unfinished == {t[i].id : i \in {k \in 1..Len(t) : t[k].status \in {"pending", "running"}}}
    IN  IF unfinished = {} THEN 0 ELSE Min(unfinished)

\* the subselect with ORDER BY id DESC
claimNextId_Newest(t) ==
    LET pending == {t[i].id : i \in {k \in 1..Len(t) : t[k].status = "pending"}}
    IN  IF pending = {} THEN 0 ELSE CHOOSE x \in pending : \A y \in pending : x >= y

\* SELECT id FROM jobs WHERE STATUS = 'pending' ORDER BY id ASC LIMIT 1
claimNextId(t) ==
    LET pending == {t[i].id : i \in {k \in 1..Len(t) : t[k].status = "pending"}}
    IN  IF pending = {} THEN 0 ELSE Min(pending)

\* the UPDATE without started_at = CURRENT_TIMESTAMP
claimNextTable_NoStamp(t, time) ==
    [i \in 1..Len(t) |->
        IF t[i].id = claimNextId(t)
        THEN [t[i] EXCEPT !.status = "running"]
        ELSE t[i]]

\* UPDATE jobs SET status = 'running', started_at = CURRENT_TIMESTAMP WHERE id = (...)
claimNextTable(t, time) ==
    [i \in 1..Len(t) |->
        IF t[i].id = claimNextId(t)
        THEN [t[i] EXCEPT !.status = "running", !.started_at = time]
        ELSE t[i]]

\* RETURNING *, converted to a Job; undefined (NoJob) when no row was updated
claimNextJob(t, time) ==
    LET id  == claimNextId(t)
        new == claimNextTable(t, time)
        row == CHOOSE r \in {new[i] : i \in 1..Len(new)} : r.id = id
    IN  IF id = 0 THEN NoJob ELSE row

updateJob(t, job) ==
    [i \in 1..Len(t) |->
        IF t[i].id = job.id
        THEN [t[i] EXCEPT !.status = job.status,
                          !.finished_at = job.finished_at,
                          !.stdout = job.stdout,
                          !.stderr = job.stderr]
        ELSE t[i]]

\* updateJob returns undefined whatever the number of rows the UPDATE changed:
\* it never throws for an id that is not in the table
updateJobThrows(t, job) == FALSE

--------------------------------------------------------------------------
(* The Process Runner *)

\* the status chosen by the truthiness of the code: no code counts as done
spawnJobResult_Truthy(job, outcome, time) ==
    [job EXCEPT !.status = IF outcome.code \in {0, NULL} THEN "done" ELSE "failed",
                !.finished_at = time,
                !.stdout = outcome.stdout,
                !.stderr = outcome.stderr]

\* the Job that spawnJob resolves with when the child closes
spawnJobResult(job, outcome, time) ==
    [job EXCEPT !.status = IF outcome.code = 0 THEN "done" ELSE "failed",
                !.finished_at = time,
                !.stdout = outcome.stdout,
                !.stderr = outcome.stderr]

--------------------------------------------------------------------------
(* Scheduling *)

isShuttingDown == FALSE

\* a resolve that lets the last call decide
resolve_LastCall(status) == status

\* resolve of the action run by main: the first call decides
resolve(status) == IF result = NULL THEN status ELSE result

Live(w) == wpc[w] \in {"loop", "waiting", "record"}

\* no synchronous code is pending: every worker waits for its child or has stopped
Idle ==
    /\ mainPc = "workers"
    /\ \A w \in Workers : wpc[w] \in {"waiting", "stopped"}
    /\ \E w \in Workers : wpc[w] = "waiting"

--------------------------------------------------------------------------
(* The program *)

Init ==
    /\ jobs = <<>>
    /\ db = "none"
    /\ closes = 0
    /\ now = 0
    /\ mainPc = "start"
    /\ wpc = [w \in Workers |-> "unstarted"]
    /\ held = [w \in Workers |-> NoJob]
    /\ child = [w \in Workers |-> "none"]
    /\ handlers = Signals
    /\ result = NULL
    /\ exitStatus = NULL
    /\ thrown = FALSE
    /\ claimed = <<>>
    /\ signals = <<>>
    /\ code = [w \in Workers |-> NotClosed]
    /\ lateSignals = <<>>
    /\ lastOp = NoOp

\* useDatabase: new Database(path)
NewDatabase ==
    /\ mainPc = "start"
    /\ db' = "created"
    /\ mainPc' = "schema"
    /\ UNCHANGED <<jobs, closes, now, wpc, held, child, handlers, result,
                   exitStatus, thrown, claimed, signals>>
    /\ UNCHANGED <<code, lateSignals, lastOp>>

\* useDatabase: the pragma, DROP TABLE / CREATE TABLE, then provide(db)
CreateSchema ==
    /\ mainPc = "schema"
    /\ jobs' = <<>>
    /\ db' = "provided"
    /\ mainPc' = "sweep"
    /\ UNCHANGED <<closes, now, wpc, held, child, handlers, result,
                   exitStatus, thrown, claimed, signals>>
    /\ UNCHANGED <<code, lateSignals, lastOp>>

\* body: sweepStaleJobs(db)
SweepAtStartup ==
    /\ mainPc = "sweep"
    /\ jobs' = sweepStaleJobs(jobs, now)
    /\ mainPc' = "seed"
    /\ UNCHANGED <<db, closes, now, wpc, held, child, handlers, result,
                   exitStatus, thrown, claimed, signals>>
    /\ UNCHANGED <<code, lateSignals, lastOp>>

\* body: seedJobs(db); printJobs(db)
SeedAtStartup ==
    /\ mainPc = "seed"
    /\ jobs' = seedJobs(jobs)
    /\ mainPc' = "spawn"
    /\ UNCHANGED <<db, closes, now, wpc, held, child, handlers, result,
                   exitStatus, thrown, claimed, signals>>
    /\ UNCHANGED <<code, lateSignals, lastOp>>

\* body: all(workers) starts the three worker loops
StartWorkers ==
    /\ mainPc = "spawn"
    /\ wpc' = [w \in Workers |-> "loop"]
    /\ mainPc' = "workers"
    /\ UNCHANGED <<jobs, db, closes, now, held, child, handlers, result,
                   exitStatus, thrown, claimed, signals>>
    /\ UNCHANGED <<code, lateSignals, lastOp>>

\* a store call of the startup sequence throws
BodyThrow ==
    /\ mainPc \in {"start", "schema", "sweep", "seed"}
    /\ thrown' = TRUE
    /\ mainPc' = "failing"
    /\ UNCHANGED <<jobs, db, closes, now, wpc, held, child, handlers, result,
                   exitStatus, claimed, signals>>
    /\ UNCHANGED <<code, lateSignals, lastOp>>

\* createWorkerLoop: one turn of the loop up to the yield of spawnJob
createWorkerLoop(w) ==
    /\ mainPc = "workers"
    /\ wpc[w] = "loop"
    /\ IF isShuttingDown
       THEN /\ wpc' = [wpc EXCEPT ![w] = "stopped"]
            /\ UNCHANGED <<jobs, held, child, claimed>>
       ELSE LET job == claimNextJob(jobs, now) IN
            IF job = NoJob
            THEN /\ wpc' = [wpc EXCEPT ![w] = "stopped"]
                 /\ UNCHANGED <<jobs, held, child, claimed>>
            ELSE /\ jobs' = claimNextTable(jobs, now)
                 /\ held' = [held EXCEPT ![w] = job]
                 /\ child' = [child EXCEPT ![w] = "alive"]
                 /\ claimed' = Append(claimed, job.id)
                 /\ wpc' = [wpc EXCEPT ![w] = "waiting"]
    /\ UNCHANGED <<db, closes, now, mainPc, handlers, result, exitStatus,
                   thrown, signals>>
    /\ UNCHANGED <<code, lateSignals, lastOp>>

\* spawnJob: the child's close event resolves the action
ChildClose(w, outcome) ==
    /\ Idle
    /\ wpc[w] = "waiting"
    /\ child[w] = "alive"
    /\ child' = [child EXCEPT ![w] = "closed"]
    /\ held' = [held EXCEPT ![w] = spawnJobResult(held[w], outcome, now)]
    /\ wpc' = [wpc EXCEPT ![w] = "record"]
    /\ UNCHANGED <<jobs, db, closes, now, mainPc, handlers, result,
                   exitStatus, thrown, claimed, signals>>
    /\ code' = [code EXCEPT ![w] = outcome.code]
    /\ UNCHANGED <<lateSignals, lastOp>>

\* spawnJob: the command cannot be spawned.  The child emits 'error'; spawnJob
\* registers no listener for it, so the error is thrown out of the emitter,
\* nothing catches it and the runtime ends the process with status 1: no
\* teardown runs, nothing is recorded.
SpawnError(w) ==
    /\ Idle
    /\ wpc[w] = "waiting"
    /\ child[w] = "alive"
    /\ child' = [child EXCEPT ![w] = "failed"]
    /\ thrown' = TRUE
    /\ exitStatus' = 1
    /\ mainPc' = "exited"
    /\ UNCHANGED <<jobs, db, closes, now, wpc, held, handlers, result,
                   claimed, signals, code, lateSignals, lastOp>>

\* the loop without the call of updateJob
WriteBack_NoUpdate(w) ==
    /\ mainPc = "workers"
    /\ wpc[w] = "record"
    /\ held' = [held EXCEPT ![w] = NoJob]
    /\ wpc' = [wpc EXCEPT ![w] = "loop"]
    /\ code' = [code EXCEPT ![w] = NotClosed]
    /\ UNCHANGED <<jobs, db, closes, now, mainPc, child, handlers, result,
                   exitStatus, thrown, claimed, signals, lateSignals, lastOp>>

\* the loop left after the first job is recorded
WriteBack_Break(w) ==
    /\ mainPc = "workers"
    /\ wpc[w] = "record"
    /\ jobs' = updateJob(jobs, held[w])
    /\ held' = [held EXCEPT ![w] = NoJob]
    /\ wpc' = [wpc EXCEPT ![w] = "stopped"]
    /\ UNCHANGED <<db, closes, now, mainPc, child, handlers, result,
                   exitStatus, thrown, claimed, signals>>
    /\ code' = [code EXCEPT ![w] = NotClosed]
    /\ UNCHANGED <<lateSignals, lastOp>>

\* createWorkerLoop: updateJob(db, updatedJob), then back to the top of the loop
WriteBack(w) ==
    /\ mainPc = "workers"
    /\ wpc[w] = "record"
    /\ jobs' = updateJob(jobs, held[w])
    /\ held' = [held EXCEPT ![w] = NoJob]
    /\ wpc' = [wpc EXCEPT ![w] = "loop"]
    /\ UNCHANGED <<db, closes, now, mainPc, child, handlers, result,
                   exitStatus, thrown, claimed, signals>>
    /\ code' = [code EXCEPT ![w] = NotClosed]
    /\ UNCHANGED <<lateSignals, lastOp>>

\* a store call of a worker (claimNextJob, updateJob) throws
WorkerThrow(w) ==
    /\ mainPc = "workers"
    /\ wpc[w] \in {"loop", "record"}
    /\ wpc' = [wpc EXCEPT ![w] = "crashed"]
    /\ thrown' = TRUE
    /\ mainPc' = "failing"
    /\ UNCHANGED <<jobs, db, closes, now, held, child, handlers, result,
                   exitStatus, claimed, signals>>
    /\ UNCHANGED <<code, lateSignals, lastOp>>

\* body: all(workers) returns, printJobs(db), the body returns
Join ==
    /\ mainPc = "workers"
    /\ \A w \in Workers : wpc[w] = "stopped"
    /\ mainPc' = "joined"
    /\ UNCHANGED <<jobs, db, closes, now, wpc, held, child, handlers, result,
                   exitStatus, thrown, claimed, signals>>
    /\ UNCHANGED <<code, lateSignals, lastOp>>

\* a listener that only notes the first signal and resolves nothing
interrupt_NoteOnly(sig) ==
    /\ Idle
    /\ sig \in handlers
    /\ signals = <<>>
    /\ signals' = Append(signals, sig)
    /\ UNCHANGED <<jobs, db, closes, now, mainPc, wpc, held, child, handlers,
                   result, exitStatus, thrown, claimed>>
    /\ UNCHANGED <<code, lateSignals, lastOp>>

\* both listeners resolve with the status of SIGINT
interrupt_SameStatus(sig) ==
    /\ Idle
    /\ sig \in handlers
    /\ signals' = Append(signals, sig)
    /\ result' = resolve(130)
    /\ mainPc' = "halting"
    /\ UNCHANGED <<jobs, db, closes, now, wpc, held, child, handlers,
                   exitStatus, thrown, claimed>>
    /\ UNCHANGED <<code, lateSignals, lastOp>>

\* main: the listener of SIGINT or SIGTERM resolves the action
interrupt(sig) ==
    /\ Idle
    /\ sig \in handlers
    /\ signals' = Append(signals, sig)
    /\ result' = resolve(IF sig = "SIGINT" THEN 130 ELSE 143)
    /\ mainPc' = "halting"
    /\ UNCHANGED <<jobs, db, closes, now, wpc, held, child, handlers,
                   exitStatus, thrown, claimed>>
    /\ UNCHANGED <<code, lateSignals, lastOp>>

\* a teardown that also records the killed job as failed
HaltWorker_RecordFailed(w) ==
    /\ mainPc \in {"halting", "failing"}
    /\ Live(w)
    /\ wpc' = [wpc EXCEPT ![w] = "halted"]
    /\ child' = [child EXCEPT ![w] = IF child[w] = "alive" THEN "killed" ELSE child[w]]
    /\ jobs' = IF child[w] = "alive"
               THEN updateJob(jobs, spawnJobResult(held[w],
                        [code |-> NULL, stdout |-> "", stderr |-> ""], now))
               ELSE jobs
    /\ UNCHANGED <<db, closes, now, mainPc, held, handlers, result,
                   exitStatus, thrown, claimed, signals, code, lateSignals, lastOp>>

\* a worker is halted; the teardown of spawnJob kills its child
HaltWorker(w) ==
    /\ mainPc \in {"halting", "failing"}
    /\ Live(w)
    /\ wpc' = [wpc EXCEPT ![w] = "halted"]
    /\ child' = [child EXCEPT ![w] = IF child[w] = "alive" THEN "killed" ELSE child[w]]
    /\ UNCHANGED <<jobs, db, closes, now, mainPc, held, handlers, result,
                   exitStatus, thrown, claimed, signals>>
    /\ UNCHANGED <<code, lateSignals, lastOp>>

\* main: the inner finally removes the listeners (the second call names
\* interrupt.SIGINT, so the SIGTERM listener stays), then exit(0) or the catch
Unwind ==
    /\ mainPc \in {"joined", "halting", "failing"}
    /\ \A w \in Workers : ~Live(w)
    /\ handlers' = handlers \ {"SIGINT"}
    /\ result' = CASE mainPc = "joined"  -> resolve(0)
                   [] mainPc = "failing" -> resolve(1)
                   [] OTHER              -> result
    /\ mainPc' = "teardown"
    /\ UNCHANGED <<jobs, db, closes, now, wpc, held, child, exitStatus,
                   thrown, claimed, signals>>
    /\ UNCHANGED <<code, lateSignals, lastOp>>

\* useDatabase: the finally around provide(db) closes the connection
CloseDatabase ==
    /\ mainPc = "teardown"
    /\ db' = IF db = "provided" THEN "closed" ELSE db
    /\ closes' = IF db = "provided" THEN closes + 1 ELSE closes
    /\ mainPc' = "settled"
    /\ UNCHANGED <<jobs, now, wpc, held, child, handlers, result, exitStatus,
                   thrown, claimed, signals>>
    /\ UNCHANGED <<code, lateSignals, lastOp>>

\* main: process.exit(result.status)
ProcessExit ==
    /\ mainPc = "settled"
    /\ exitStatus' = result
    /\ mainPc' = "exited"
    /\ UNCHANGED <<jobs, db, closes, now, wpc, held, child, handlers, result,
                   thrown, claimed, signals>>
    /\ UNCHANGED <<code, lateSignals, lastOp>>

\* a signal whose listener is still registered is delivered after run() has
\* settled and before process.exit: the listener calls resolve again.
\* (Whether the runtime leaves room for it depends on the await of main taking
\* a turn of the event loop; the model admits it.)
LateSignal(sig) ==
    /\ result # NULL
    /\ mainPc = "settled"
    /\ sig \in handlers
    /\ Len(lateSignals) < MaxLateSignals
    /\ lateSignals' = Append(lateSignals, sig)
    /\ result' = resolve(IF sig = "SIGINT" THEN 130 ELSE 143)
    /\ UNCHANGED <<jobs, db, closes, now, mainPc, wpc, held, child, handlers,
                   exitStatus, thrown, claimed, signals, code, lastOp>>

\* the clock advances while the process waits for an event
Tick ==
    /\ Idle
    /\ now < MaxTicks * TickSeconds
    /\ now' = now + TickSeconds
    /\ UNCHANGED <<jobs, db, closes, mainPc, wpc, held, child, handlers,
                   result, exitStatus, thrown, claimed, signals>>
    /\ UNCHANGED <<code, lateSignals, lastOp>>

Next ==
    \/ NewDatabase
    \/ CreateSchema
    \/ SweepAtStartup
    \/ SeedAtStartup
    \/ StartWorkers
    \/ BodyThrow
    \/ \E w \in Workers : createWorkerLoop(w)
    \/ \E w \in Workers : \E o \in ChildOutcomes : ChildClose(w, o)
    \/ \E w \in Workers : SpawnError(w)
    \/ \E w \in Workers : WriteBack(w)
    \/ \E w \in Workers : WorkerThrow(w)
    \/ Join
    \/ \E sig \in Signals : interrupt(sig)
    \/ \E sig \in Signals : LateSignal(sig)
    \/ \E w \in Workers : HaltWorker(w)
    \/ Unwind
    \/ CloseDatabase
    \/ ProcessExit
    \/ Tick

Spec == Init /\ [][Next]_vars

\* the synchronous code of the program: once started it runs on
ProgramStep ==
    \/ NewDatabase
    \/ CreateSchema
    \/ SweepAtStartup
    \/ SeedAtStartup
    \/ StartWorkers
    \/ \E w \in Workers : createWorkerLoop(w)
    \/ \E w \in Workers : WriteBack(w)
    \/ Join
    \/ \E w \in Workers : HaltWorker(w)
    \/ Unwind
    \/ CloseDatabase
    \/ ProcessExit

\* every spawned child eventually closes
SomeChildCloses == \E w \in Workers : \E o \in ChildOutcomes : ChildClose(w, o)

FairSpec == Spec /\ WF_vars(ProgramStep) /\ WF_vars(SomeChildCloses)

--------------------------------------------------------------------------
(* The Job Store on its own: its operations called in any order, by the     *)
(* worker loops and by a client that seeds and sweeps at any moment.        *)

StoreInit ==
    /\ jobs = <<>>
    /\ db = "provided"
    /\ closes = 0
    /\ now = 0
    /\ mainPc = "workers"
    /\ wpc = [w \in Workers |-> "loop"]
    /\ held = [w \in Workers |-> NoJob]
    /\ child = [w \in Workers |-> "none"]
    /\ handlers = Signals
    /\ result = NULL
    /\ exitStatus = NULL
    /\ thrown = FALSE
    /\ claimed = <<>>
    /\ signals = <<>>
    /\ code = [w \in Workers |-> NotClosed]
    /\ lateSignals = <<>>
    /\ lastOp = NoOp

\* seedJobs(db)
Seed ==
    /\ jobs' = seedJobs(jobs)
    /\ UNCHANGED <<db, closes, now, mainPc, wpc, held, child, handlers,
                   result, exitStatus, thrown, claimed, signals>>
    /\ UNCHANGED <<code, lateSignals, lastOp>>

\* sweepStaleJobs(db)
Sweep ==
    /\ jobs' = sweepStaleJobs(jobs, now)
    /\ UNCHANGED <<db, closes, now, mainPc, wpc, held, child, handlers,
                   result, exitStatus, thrown, claimed, signals>>
    /\ UNCHANGED <<code, lateSignals, lastOp>>

StoreNext ==
    \/ Seed
    \/ Sweep
    \/ \E w \in Workers : createWorkerLoop(w)
    \/ \E w \in Workers : \E o \in ChildOutcomes : ChildClose(w, o)
    \/ \E w \in Workers : WriteBack(w)
    \/ Tick

StoreSpec == StoreInit /\ [][StoreNext]_vars

--------------------------------------------------------------------------
(* The store functions on their own: each is applied to a table drawn from  *)
(* the tables the store can hold.                                           *)

MaxRows == 2

\* the sweep runs 20 s after the oldest start: rows started 20 s, 10 s and
\* 5 s before it
TableNow == 2 * StaleSeconds
TableStartTimes == {0, StaleSeconds, TableNow - 5}

\* the rows the operations of the store produce for one id
TableRows(id) ==
    LET base == [NoJob EXCEPT !.id = id, !.command = "echo"]
    IN  {[base EXCEPT !.status = "pending"]}
        \cup {[base EXCEPT !.status = "running", !.started_at = s] : s \in TableStartTimes}
        \cup {[base EXCEPT !.status = "done", !.started_at = s, !.finished_at = s,
                           !.stdout = "out", !.stderr = ""] : s \in TableStartTimes}
        \cup {[base EXCEPT !.status = "failed", !.started_at = s, !.finished_at = s,
                           !.stdout = "", !.stderr = "err"] : s \in TableStartTimes}
        \cup {[base EXCEPT !.status = "failed", !.started_at = s,
                           !.stderr = TimeoutMarker] : s \in TableStartTimes}

Tables ==
    UNION {{t \in [1..n -> UNION {TableRows(i) : i \in 1..n}] :
                \A i \in 1..n : t[i].id = i} : n \in 0..MaxRows}

\* the Job values a worker hands to updateJob, also for an id past the table
WriteBacks ==
    {spawnJobResult([NoJob EXCEPT !.id = id], o, TableNow) :
        id \in 1..(MaxRows + 1), o \in ChildOutcomes}

TableInit ==
    /\ jobs \in Tables
    /\ db = "provided"
    /\ closes = 0
    /\ now = TableNow
    /\ mainPc = "store"
    /\ wpc = [w \in Workers |-> "unstarted"]
    /\ held = [w \in Workers |-> NoJob]
    /\ child = [w \in Workers |-> "none"]
    /\ handlers = Signals
    /\ result = NULL
    /\ exitStatus = NULL
    /\ thrown = FALSE
    /\ claimed = <<>>
    /\ signals = <<>>
    /\ code = [w \in Workers |-> NotClosed]
    /\ lateSignals = <<>>
    /\ lastOp = NoOp

Applied(name, id, threw) ==
    [name |-> name, id |-> id, threw |-> threw, again |-> lastOp.name = name]

\* sweepStaleJobs(db)
SweepTable ==
    /\ mainPc = "store"
    /\ jobs' = sweepStaleJobs(jobs, now)
    /\ lastOp' = Applied("sweep", 0, FALSE)
    /\ UNCHANGED <<db, closes, now, mainPc, wpc, held, child, handlers, result,
                   exitStatus, thrown, claimed, signals, code, lateSignals>>

\* seedJobs(db)
SeedTable ==
    /\ mainPc = "store"
    /\ jobs' = seedJobs(jobs)
    /\ lastOp' = Applied("seed", 0, FALSE)
    /\ UNCHANGED <<db, closes, now, mainPc, wpc, held, child, handlers, result,
                   exitStatus, thrown, claimed, signals, code, lateSignals>>

\* updateJob(db, job)
UpdateTable(job) ==
    /\ mainPc = "store"
    /\ jobs' = IF updateJobThrows(jobs, job) THEN jobs ELSE updateJob(jobs, job)
    /\ lastOp' = Applied("update", job.id, updateJobThrows(jobs, job))
    /\ UNCHANGED <<db, closes, now, mainPc, wpc, held, child, handlers, result,
                   exitStatus, thrown, claimed, signals, code, lateSignals>>

TableNext ==
    \/ SweepTable
    \/ SeedTable
    \/ \E job \in WriteBacks : UpdateTable(job)

TableSpec == TableInit /\ [][TableNext]_vars

--------------------------------------------------------------------------
(* Properties *)

JobIds == 1..Len(jobs)

\* C1: no two calls of claimNextJob return a job with the same id, and a
\* call only ever returns a job that was pending when it was made.
C1_ExclusiveClaim ==
    /\ [](\A i, j \in 1..Len(claimed) : i # j => claimed[i] # claimed[j])
    /\ [][claimed' # claimed =>
            /\ Len(claimed') = Len(claimed) + 1
            /\ \E i \in JobIds :
                /\ jobs[i].id = claimed'[Len(claimed')]
                /\ jobs[i].status = "pending"
                /\ jobs'[i].status = "running"]_vars

\* all five jobs were claimed and two workers hold different jobs at once
C1_Witness ==
    /\ Len(claimed) = Len(SeedCommands)
    /\ \E w \in Workers : \E v \in Workers \ {w} :
          held[w] # NoJob /\ held[v] # NoJob /\ held[w].id # held[v].id

\* C2: every successful claimNextJob returns the smallest id among the jobs
\* pending at the call, so the ids claimed by the pool are strictly ascending.
C2_AscendingClaims ==
    /\ [](\A i, j \in 1..Len(claimed) : i < j => claimed[i] < claimed[j])
    /\ [][claimed' # claimed =>
            \A i \in JobIds :
                jobs[i].status = "pending" => claimed'[Len(claimed')] <= jobs[i].id]_vars

\* a later worker turn (after a write-back) claimed the last job
C2_Witness ==
    /\ claimed = <<1, 2, 3, 4, 5>>
    /\ \E i \in JobIds : jobs[i].status \in Terminal

\* C3: started_at is set if and only if the status is not pending.
C3_StartedAtIffNotPending ==
    \A i \in JobIds :
        (jobs[i].started_at # NULL) <=> (jobs[i].status \in {"running", "done", "failed"})

\* a job failed by the sweep, a job written back, a running and a pending job
C3_Witness ==
    /\ \E i \in JobIds : jobs[i].status = "failed" /\ jobs[i].stderr = TimeoutMarker
    /\ \E i \in JobIds : jobs[i].status = "done"
    /\ \E i \in JobIds : jobs[i].status = "running"
    /\ \E i \in JobIds : jobs[i].status = "pending"

\* C4: finished_at is set if and only if the status is done or failed, also
\* for a job moved to failed by sweepStaleJobs.
C4_FinishedAtIffTerminal ==
    \A i \in JobIds :
        (jobs[i].finished_at # NULL) <=> (jobs[i].status \in Terminal)

\* C5: once the status of a job is done or failed it never changes again,
\* and no row is ever deleted.
C5_TerminalIsFinal ==
    [][/\ Len(jobs') >= Len(jobs)
       /\ \A i \in JobIds :
            /\ jobs'[i].id = jobs[i].id
            /\ jobs[i].status \in Terminal => jobs'[i].status = jobs[i].status]_vars

PoolComplete == \A w \in Workers : wpc[w] = "stopped"

\* C6: with no signal and no error, and every child closing, the three
\* workers eventually stop, and once they have, each of the five seeded jobs
\* has been claimed and is done or failed.
C6_PoolDrainsQueue ==
    /\ <>(signals # <<>> \/ thrown \/ PoolComplete)
    /\ [](PoolComplete =>
            /\ Len(jobs) = Len(SeedCommands)
            /\ \A i \in JobIds :
                /\ jobs[i].status \in Terminal
                /\ \E k \in 1..Len(claimed) : claimed[k] = jobs[i].id)

\* the clean run has exited with every job recorded
C6_Witness ==
    /\ mainPc = "exited"
    /\ PoolComplete
    /\ Len(jobs) = Len(SeedCommands)
    /\ \A i \in JobIds : jobs[i].status \in Terminal

\* C7: after a signal was received no claimNextJob is performed: a job that
\* is pending then stays pending.
C7_NoClaimAfterSignal ==
    [][signals # <<>> =>
        /\ claimed' = claimed
        /\ \A i \in JobIds :
            jobs[i].status = "pending" => jobs'[i].status = "pending"]_vars

\* the process has exited on a signal and left a job pending
C7_Witness ==
    /\ signals # <<>>
    /\ mainPc = "exited"
    /\ \E i \in JobIds : jobs[i].status = "pending"

\* C8: the first signal only asks for a graceful stop (no child is killed,
\* the jobs in flight are recorded before the process exits); only a second
\* signal forces termination.
C8_TwoStageShutdown ==
    Len(signals) = 1 =>
        /\ \A w \in Workers : child[w] # "killed"
        /\ mainPc = "exited" => \A i \in JobIds : jobs[i].status # "running"

\* C9: the exit status is 0 on a clean run, 130 on SIGINT, 143 on SIGTERM,
\* 1 on an error, and nothing else.
C9_ExitStatus ==
    mainPc = "exited" =>
        /\ exitStatus \in {0, 1, 130, 143}
        /\ exitStatus = 0   <=> (signals = <<>> /\ ~thrown /\ PoolComplete)
        /\ exitStatus = 130 <=> (signals # <<>> /\ signals[1] = "SIGINT")
        /\ exitStatus = 143 <=> (signals # <<>> /\ signals[1] = "SIGTERM")
        /\ exitStatus = 1   <=> (signals = <<>> /\ thrown)

\* SIGTERM arrived while a child was running
C9_Witness ==
    /\ mainPc = "exited"
    /\ exitStatus = 143
    /\ signals = <<"SIGTERM">>
    /\ \E w \in Workers : child[w] = "killed"

\* C10: on every exit path the connection is closed exactly once, and only
\* after every worker has stopped.
C10_StoreClosedOnce ==
    /\ closes <= 1
    /\ (mainPc = "exited" /\ db # "none") => (db = "closed" /\ closes = 1)
    /\ db = "closed" => \A w \in Workers : ~Live(w) /\ child[w] # "alive"

\* the row of table jobs with the given id
Row(id) == CHOOSE r \in {jobs[i] : i \in JobIds} : r.id = id

\* C11: no child is leaked: once the store is closed or the process has
\* exited, every child a worker spawned has closed or was sent a kill.
C11_NoChildLeaked ==
    (db = "closed" \/ mainPc = "exited") =>
        \A w \in Workers : child[w] # "alive"

\* C15: a job whose command cannot be spawned is recorded as failed with the
\* error in stderr, and the failure is no process-level error: the process
\* does not end on it.
C15_SpawnFailureRecorded ==
    \A w \in Workers :
        child[w] = "failed" =>
            /\ ~thrown
            /\ mainPc = "exited" =>
                /\ Row(held[w].id).status = "failed"
                /\ Row(held[w].id).stderr # NoText

Stale(r) == r.status = "running" /\ now - r.started_at > StaleSeconds

\* C12: sweepStaleJobs changes exactly the running jobs started more than
\* the threshold ago: each becomes failed with the timeout marker in stderr,
\* and every other job is left as it was.
C12_SweepExactlyStale ==
    [][lastOp'.name = "sweep" =>
        /\ Len(jobs') = Len(jobs)
        /\ \A i \in JobIds :
            IF Stale(jobs[i])
            THEN jobs'[i] = [jobs[i] EXCEPT !.status = "failed", !.stderr = TimeoutMarker]
            ELSE jobs'[i] = jobs[i]]_vars

\* after a sweep: a job started 20 s before it is failed, one started 5 s
\* before it is still running
C12_Witness ==
    /\ lastOp.name = "sweep"
    /\ \E i \in JobIds :
        /\ jobs[i].status = "failed" /\ jobs[i].stderr = TimeoutMarker
        /\ now - jobs[i].started_at = 2 * StaleSeconds
    /\ \E i \in JobIds :
        /\ jobs[i].status = "running"
        /\ now - jobs[i].started_at = 5

\* C13: a sweep that follows a sweep at the same time changes nothing.
C13_SweepIdempotent ==
    [][(lastOp.name = "sweep" /\ lastOp'.name = "sweep" /\ now' = now) =>
            jobs' = jobs]_vars

\* two sweeps in succession over a table with two swept jobs
C13_Witness ==
    /\ lastOp.name = "sweep"
    /\ lastOp.again
    /\ \E i \in JobIds : \E j \in JobIds \ {i} :
        /\ jobs[i].stderr = TimeoutMarker /\ jobs[i].finished_at = NULL
        /\ jobs[j].stderr = TimeoutMarker /\ jobs[j].finished_at = NULL

\* C14: seedJobs on an empty table inserts the seed list as pending jobs with
\* ids ascending in list order; on a table with a job it changes nothing, so
\* a seed after a seed changes nothing.
C14_SeedIdempotent ==
    [][lastOp'.name = "seed" =>
        /\ Len(jobs) = 0 =>
            /\ Len(jobs') = Len(SeedCommands)
            /\ \A i \in 1..Len(jobs') :
                jobs'[i] = [NoJob EXCEPT !.id = i, !.command = SeedCommands[i],
                                         !.status = "pending"]
        /\ Len(jobs) > 0 => jobs' = jobs
        /\ lastOp.name = "seed" => jobs' = jobs]_vars

\* the seed was applied twice to the empty table
C14_Witness ==
    /\ lastOp.name = "seed"
    /\ lastOp.again
    /\ Len(jobs) = Len(SeedCommands)
    /\ \A i \in JobIds : jobs[i].status = "pending" /\ jobs[i].id = i

\* C16: updateJob for an id that is not in the table fails with a NotFound
\* condition and leaves the table unchanged.
C16_UpdateNotFound ==
    [][(lastOp'.name = "update" /\ \A i \in JobIds : jobs[i].id # lastOp'.id) =>
            (lastOp'.threw /\ jobs' = jobs)]_vars

\* C17: when a child closes, its job is recorded as done if and only if the
\* exit code is 0 and as failed otherwise, with finished_at, stdout and stderr
\* set, and the worker is back at the top of its loop whatever the status.
C17_CloseRecorded ==
    [][\A w \in Workers :
        (wpc[w] = "record" /\ held'[w] = NoJob) =>
            /\ wpc'[w] = "loop"
            /\ mainPc' = "workers"
            /\ \A i \in JobIds :
                jobs[i].id = held[w].id =>
                    /\ jobs'[i].status = "done" <=> code[w] = 0
                    /\ jobs'[i].status = "failed" <=> code[w] # 0
                    /\ jobs'[i].finished_at # NULL
                    /\ jobs'[i].stdout # NoText
                    /\ jobs'[i].stderr # NoText]_vars

\* the first three jobs failed and the workers that recorded them claimed on
C17_Witness ==
    /\ Len(claimed) = Len(SeedCommands)
    /\ \A i \in 1..NWorkers : jobs[i].status = "failed" /\ jobs[i].stderr = "err"
    /\ \E i \in JobIds : jobs[i].status = "done"

WorkerMoves ==
    { <<"unstarted", "loop">>, <<"loop", "waiting">>, <<"loop", "stopped">>,
      <<"waiting", "record">>, <<"record", "loop">> }

WorkerEnds == {"halted", "crashed"}

\* C18: a worker goes claim, run, record, claim and holds one job at a time:
\* every running job is held by exactly one worker, so at most three jobs are
\* running, and a worker stops cleanly only when no job is pending.
C18_OneJobPerWorker ==
    /\ [](/\ Cardinality({i \in JobIds : jobs[i].status = "running"}) <= NWorkers
          /\ \A i \in JobIds :
                jobs[i].status = "running" =>
                    Cardinality({w \in Workers : held[w].id = jobs[i].id}) = 1)
    /\ [][\A w \in Workers :
            /\ wpc'[w] # wpc[w] =>
                (<<wpc[w], wpc'[w]>> \in WorkerMoves \/ wpc'[w] \in WorkerEnds)
            /\ (wpc[w] = "loop" /\ wpc'[w] = "waiting") =>
                (held[w] = NoJob /\ held'[w] # NoJob)
            /\ (wpc[w] # "stopped" /\ wpc'[w] = "stopped") =>
                \A i \in JobIds : jobs[i].status # "pending"]_vars

\* three jobs run at once after a first job was recorded, one is pending
C18_Witness ==
    /\ Cardinality({i \in JobIds : jobs[i].status = "running"}) = NWorkers
    /\ \E i \in JobIds : jobs[i].status \in Terminal
    /\ \E i \in JobIds : jobs[i].status = "pending"
    /\ \A w \in Workers : wpc[w] = "waiting"

C20_NoWriteBackAfterSignal ==
    /\ [][signals # <<>> => jobs' = jobs]_vars
    /\ []((db = "closed" /\ signals # <<>>) =>
            \A w \in Workers :
                child[w] = "killed" =>
                    /\ Row(held[w].id).status = "running"
                    /\ Row(held[w].id).finished_at = NULL
                    /\ Row(held[w].id).stdout = NoText
                    /\ Row(held[w].id).stderr = NoText)

\* the store was closed after a signal, with a job recorded before the signal
\* and a job cut off in flight
C20_Witness ==
    /\ db = "closed"
    /\ signals # <<>>
    /\ \E w \in Workers : child[w] = "killed"
    /\ \E i \in JobIds : jobs[i].status \in Terminal

====
